---- MODULE Spec2Model ----
(***************************************************************************)
(* Model of main.py: the reference-face loader (load_known_faces), the     *)
(* video annotation loop (process_video) and the script entry point.       *)
(*                                                                         *)
(* Strings that the program takes apart (filenames, names, labels) are     *)
(* sequences of one-character strings.  The face engine and the video      *)
(* library are external: what they return is chosen from small sets.       *)
(***************************************************************************)
EXTENDS Integers, Sequences, FiniteSets, TLC

VARIABLES
  pc,                    \* position of the program
  calls,                 \* functions entered so far, in order
  log,                   \* console lines printed so far (their kinds)
  dirExists,             \* filesystem: the known-faces directory exists
  directory,             \* filesystem: its listing, in os.listdir order
  listing,               \* load_known_faces: the listing being iterated
  idx,                   \* load_known_faces: position in the listing
  known_face_encodings,  \* the Reference Set, encodings
  known_face_names,      \* the Reference Set, names
  video,                 \* filesystem: the input video file
  codecOK,               \* host: the MJPG writer can be opened
  capture,               \* state of the cv2.VideoCapture handle
  out,                   \* state of the cv2.VideoWriter handle
  outProps,              \* width, height and fps the writer was opened with
  pos,                   \* frames delivered by video_capture.read()
  sinkFrames,            \* frames received by out.write(), in order
  frame_count,
  nfaces,                \* len(face_locations) of the current frame
  faceIdx,               \* faces of the current frame already annotated
  matches,               \* last result of compare_faces
  face_distances,        \* last result of face_distance
  best_match_index,
  name,
  engineCalls,           \* matching functions of the face engine called so far
  labels                 \* labels drawn on the current frame, in order

vars == << pc, calls, log, dirExists, directory, listing, idx,
           known_face_encodings, known_face_names, video, codecOK,
           capture, out, outProps, pos, sinkFrames, frame_count,
           nfaces, faceIdx, matches, face_distances, best_match_index,
           name, engineCalls, labels >>

loaderVars == << listing, idx >>
fsVars     == << dirExists, directory, video, codecOK >>
knownVars  == << known_face_encodings, known_face_names >>
ioVars     == << capture, out, outProps, pos, sinkFrames >>
faceVars   == << matches, face_distances, best_match_index, name, engineCalls >>
frameVars  == << nfaces, faceIdx, labels >>

(***************************************************************************)
(* Bounds of the model.                                                    *)
(***************************************************************************)
MaxFiles  == 2     \* files in the known-faces directory
MaxKnown  == 2     \* entries of a Reference Set passed to process_video
MaxFrames == 31    \* frames the input video can deliver
MaxFaces  == 2     \* faces detected in one frame

(***************************************************************************)
(* Strings.                                                                *)
(***************************************************************************)
Uppers == << "A", "B", "E", "G", "J", "N", "P" >>
Lowers == << "a", "b", "e", "g", "j", "n", "p" >>

\* str.lower(), one character
LowerChar(c) ==
  IF \E i \in DOMAIN Uppers : Uppers[i] = c
  THEN Lowers[CHOOSE i \in DOMAIN Uppers : Uppers[i] = c]
  ELSE c

\* str.lower()
Lower(s) == [i \in 1..Len(s) |-> LowerChar(s[i])]

\* str.endswith(suffix)
EndsWith(s, suffix) ==
  /\ Len(suffix) <= Len(s)
  /\ SubSeq(s, Len(s) - Len(suffix) + 1, Len(s)) = suffix

ImageSuffixes ==
  { << ".", "j", "p", "g" >>, << ".", "j", "p", "e", "g" >>, << ".", "p", "n", "g" >> }

\* filename.lower().endswith(('.jpg', '.jpeg', '.png'))
Eligible(filename) == \E x \in ImageSuffixes : EndsWith(Lower(filename), x)

\* str.rfind('.'), 1-based; 0 when there is no dot
LastDot(s) ==
  IF \E i \in 1..Len(s) : s[i] = "."
  THEN CHOOSE i \in 1..Len(s) : s[i] = "." /\ \A j \in (i+1)..Len(s) : s[j] # "."
  ELSE 0

\* variant: the text before the last dot of any name
SplitExtNaive(filename) ==
  IF LastDot(filename) = 0 THEN filename
  ELSE SubSeq(filename, 1, LastDot(filename) - 1)

\* os.path.splitext(filename)[0] for a name without a directory separator:
\* the text before the last dot, unless only dots precede that dot, and then
\* the whole name.
SplitExtRoot(filename) ==
  LET d == LastDot(filename) IN
  IF d > 0 /\ \E i \in 1..(d-1) : filename[i] # "."
  THEN SubSeq(filename, 1, d - 1)
  ELSE filename

Unknown == << "U", "n", "k", "n", "o", "w", "n" >>

(***************************************************************************)
(* The known-faces directory.  A file is its name, whether it loads, and   *)
(* the encodings face_encodings finds in it, in detection order.           *)
(***************************************************************************)
File(n, ok, encs) == [name |-> n, loads |-> ok, faces |-> encs]

Files ==
  { File(<< "A", "l", ".", "j", "p", "g" >>,      TRUE,  << "e1" >>),
    File(<< "B", "o", ".", "P", "N", "G" >>,      TRUE,  << "e2", "e1" >>),
    File(<< "a", ".", "b", ".", "J", "p", "e", "g" >>, TRUE, << "e1", "e2" >>),
    File(<< ".", "j", "p", "g" >>,                TRUE,  << "e2" >>),
    File(<< ".", ".", "p", "n", "g" >>,           TRUE,  << "e1" >>),
    File(<< "n", "o", ".", "j", "p", "g" >>,      TRUE,  << >>),
    File(<< "b", "a", "d", ".", "p", "n", "g" >>, FALSE, << >>),
    File(<< "n", ".", "t", "x", "t" >>,           TRUE,  << "e1" >>),
    File(<< "j", "p", "g" >>,                     TRUE,  << "e2" >>) }

\* the files of a run of the whole script
MainFiles ==
  { f \in Files : f.name \in { << "A", "l", ".", "j", "p", "g" >>,
                               << "B", "o", ".", "P", "N", "G" >>,
                               << "n", "o", ".", "j", "p", "g" >>,
                               << "b", "a", "d", ".", "p", "n", "g" >>,
                               << "n", ".", "t", "x", "t" >> } }

\* the listings of at most n files with distinct names
Listings(pool, n) ==
  UNION { { s \in [1..k -> pool] : \A i, j \in 1..k : i # j => s[i].name # s[j].name }
          : k \in 0..n }

(***************************************************************************)
(* The input video and the host.  fps is in thousandths of a frame per     *)
(* second, so that 29.97 is 29970.                                         *)
(***************************************************************************)
Video(e, d, w, h, f) ==
  [exists |-> e, decodable |-> d, width |-> w, height |-> h, fps |-> f]

Videos ==
  { Video(FALSE, FALSE, 0, 0, 0),
    Video(TRUE,  FALSE, 0, 0, 0),
    Video(TRUE,  TRUE,  640, 480, 30000),
    Video(TRUE,  TRUE,  1280, 720, 29970) }

\* int(x) of a non-negative value given in thousandths
IntOf(x) == x \div 1000

NoProps == [width |-> 0, height |-> 0, fps |-> 0]

\* distances returned by face_distance, as ranks
Dist == 0..1

\* "Print progress every 30 frames"
ProgressEvery == 30

\* variant: the line comes one frame late
ProgressDueOffByOne(n) == n % ProgressEvery = 1

\* frame_count % 30 == 0
ProgressDue(n) == n % ProgressEvery = 0

\* numpy argmin: the first index holding the minimum
ArgMin(d) ==
  CHOOSE i \in DOMAIN d : /\ \A j \in DOMAIN d : d[i] <= d[j]
                          /\ \A j \in DOMAIN d : j < i => d[j] > d[i]

Range(s) == { s[i] : i \in DOMAIN s }

(***************************************************************************)
(* Initial states: the script, load_known_faces alone, process_video alone *)
(***************************************************************************)
Fresh ==
  /\ log = << >>
  /\ listing = << >> /\ idx = 0
  /\ capture = "none" /\ out = "none" /\ outProps = NoProps
  /\ pos = 0 /\ sinkFrames = << >> /\ frame_count = 0
  /\ nfaces = 0 /\ faceIdx = 0 /\ labels = << >>
  /\ matches = << >> /\ face_distances = << >>
  /\ best_match_index = 0 /\ name = << >> /\ engineCalls = { }

\* python main.py
Init ==
  /\ Fresh
  /\ pc = "main" /\ calls = << >>
  /\ dirExists \in BOOLEAN
  /\ directory \in (IF dirExists THEN Listings(MainFiles, MaxFiles) ELSE { << >> })
  /\ known_face_encodings = << >> /\ known_face_names = << >>
  /\ video \in Videos /\ codecOK \in BOOLEAN

\* load_known_faces(known_faces_dir)
InitLoader ==
  /\ Fresh
  /\ pc = "load" /\ calls = << "load_known_faces" >>
  /\ dirExists \in BOOLEAN
  /\ directory \in (IF dirExists THEN Listings(Files, MaxFiles) ELSE { << >> })
  /\ known_face_encodings = << >> /\ known_face_names = << >>
  /\ video = Video(FALSE, FALSE, 0, 0, 0) /\ codecOK = FALSE

KnownPool ==
  { << "e1", << "A", "l" >> >>, << "e2", << "B", "o" >> >> }

\* process_video(video_path, known_face_encodings, known_face_names)
InitVideo ==
  /\ Fresh
  /\ pc = "video" /\ calls = << "process_video" >>
  /\ dirExists = TRUE /\ directory = << >>
  /\ \E k \in 0..MaxKnown : \E s \in [1..k -> KnownPool] :
       /\ known_face_encodings = [i \in 1..k |-> s[i][1]]
       /\ known_face_names = [i \in 1..k |-> s[i][2]]
  /\ video \in Videos /\ codecOK \in BOOLEAN

(***************************************************************************)
(* load_known_faces                                                        *)
(***************************************************************************)
\* the directory does not exist: report and return the empty lists
Load_MissingDir ==
  /\ pc = "load" /\ ~dirExists
  /\ log' = Append(log, "no such directory")
  /\ pc' = "loaded"
  /\ UNCHANGED << calls, fsVars, loaderVars, knownVars, ioVars, frame_count,
                  frameVars, faceVars >>

\* for filename in os.listdir(known_faces_dir)
Load_ListDir ==
  /\ pc = "load" /\ dirExists
  /\ listing' = directory /\ idx' = 1
  /\ pc' = "load_loop"
  /\ UNCHANGED << calls, log, fsVars, knownVars, ioVars, frame_count,
                  frameVars, faceVars >>

InLoop == pc = "load_loop" /\ idx <= Len(listing)

\* a filename that is no image name: nothing happens
Load_SkipName ==
  /\ InLoop /\ ~Eligible(listing[idx].name)
  /\ idx' = idx + 1
  /\ UNCHANGED << pc, calls, log, fsVars, listing, knownVars, ioVars,
                  frame_count, frameVars, faceVars >>

\* load_image_file or face_encodings raises: caught, reported
Load_Error ==
  /\ InLoop /\ Eligible(listing[idx].name) /\ ~listing[idx].loads
  /\ log' = log \o << "loading", "error loading image" >>
  /\ idx' = idx + 1
  /\ UNCHANGED << pc, calls, fsVars, listing, knownVars, ioVars,
                  frame_count, frameVars, faceVars >>

\* no face in the image: warning
Load_NoFace ==
  /\ InLoop /\ Eligible(listing[idx].name) /\ listing[idx].loads
  /\ listing[idx].faces = << >>
  /\ log' = log \o << "loading", "no face found" >>
  /\ idx' = idx + 1
  /\ UNCHANGED << pc, calls, fsVars, listing, knownVars, ioVars,
                  frame_count, frameVars, faceVars >>

\* the first face's encoding and the name are appended
Load_Add ==
  /\ InLoop /\ Eligible(listing[idx].name) /\ listing[idx].loads
  /\ listing[idx].faces # << >>
  /\ log' = Append(log, "loading")
  /\ known_face_encodings' = Append(known_face_encodings, listing[idx].faces[1])
  /\ known_face_names' = Append(known_face_names, SplitExtRoot(listing[idx].name))
  /\ idx' = idx + 1
  /\ UNCHANGED << pc, calls, fsVars, listing, ioVars, frame_count, frameVars,
                  faceVars >>

\* the listing is exhausted: report the count and return
Load_Return ==
  /\ pc = "load_loop" /\ idx > Len(listing)
  /\ log' = Append(log, "loaded")
  /\ pc' = "loaded"
  /\ UNCHANGED << calls, fsVars, loaderVars, knownVars, ioVars, frame_count,
                  frameVars, faceVars >>

LoadLoop ==
  \/ Load_ListDir
  \/ Load_SkipName
  \/ Load_Error
  \/ Load_NoFace
  \/ Load_Add
  \/ Load_Return

(***************************************************************************)
(* the script                                                              *)
(***************************************************************************)
\* the directory is missing: create it, explain, end
Main_CreateDir ==
  /\ pc = "main" /\ ~dirExists
  /\ dirExists' = TRUE /\ directory' = << >>
  /\ log' = log \o << "created directory", "filename is the name", "exiting, add faces" >>
  /\ pc' = "exit"
  /\ UNCHANGED << calls, video, codecOK, loaderVars, knownVars, ioVars,
                  frame_count, frameVars, faceVars >>

\* known_face_encodings, known_face_names = load_known_faces(known_faces_dir)
Main_CallLoad ==
  /\ pc = "main" /\ dirExists
  /\ calls' = Append(calls, "load_known_faces")
  /\ pc' = "load"
  /\ UNCHANGED << log, fsVars, loaderVars, knownVars, ioVars, frame_count,
                  frameVars, faceVars >>

\* variant: process_video is called whatever the loader returned
Main_CallVideoAlways ==
  /\ pc = "loaded"
  /\ calls' = Append(calls, "process_video")
  /\ pc' = "video"
  /\ UNCHANGED << log, fsVars, loaderVars, knownVars, ioVars, frame_count,
                  frameVars, faceVars >>

\* if known_face_encodings: process_video(...)
Main_CallVideo ==
  /\ pc = "loaded" /\ known_face_encodings # << >>
  /\ calls' = Append(calls, "process_video")
  /\ pc' = "video"
  /\ UNCHANGED << log, fsVars, loaderVars, knownVars, ioVars, frame_count,
                  frameVars, faceVars >>

\* else: no known faces
Main_NoKnownFaces ==
  /\ pc = "loaded" /\ known_face_encodings = << >>
  /\ log' = log \o << "no known faces found", "exiting" >>
  /\ pc' = "exit"
  /\ UNCHANGED << calls, fsVars, loaderVars, knownVars, ioVars, frame_count,
                  frameVars, faceVars >>

\* process_video has returned to the script, which ends
Main_End ==
  /\ pc \in { "no file", "not opened", "no sink", "finished" }
  /\ pc' = "exit"
  /\ UNCHANGED << calls, log, fsVars, loaderVars, knownVars, ioVars,
                  frame_count, frameVars, faceVars >>

(***************************************************************************)
(* process_video                                                           *)
(***************************************************************************)
\* the video path does not exist: report and return
Video_NoFile ==
  /\ pc = "video" /\ ~video.exists
  /\ log' = Append(log, "video file does not exist")
  /\ pc' = "no file"
  /\ UNCHANGED << calls, fsVars, loaderVars, knownVars, ioVars, frame_count,
                  frameVars, faceVars >>

\* variant: the writer is opened before the capture is tested
Video_NotOpenedButSink ==
  /\ pc = "video" /\ video.exists /\ ~video.decodable
  /\ capture' = "closed" /\ out' = "open"
  /\ log' = Append(log, "could not open video file")
  /\ pc' = "not opened"
  /\ UNCHANGED << calls, fsVars, loaderVars, knownVars, outProps, pos,
                  sinkFrames, frame_count, frameVars, faceVars >>

\* VideoCapture(video_path) is not opened: report and return
Video_NotOpened ==
  /\ pc = "video" /\ video.exists /\ ~video.decodable
  /\ capture' = "closed"
  /\ log' = Append(log, "could not open video file")
  /\ pc' = "not opened"
  /\ UNCHANGED << calls, fsVars, loaderVars, knownVars, out, outProps, pos,
                  sinkFrames, frame_count, frameVars, faceVars >>

\* the properties the VideoWriter is opened with
WriterProps(v) ==
  [width |-> IntOf(v.width * 1000), height |-> IntOf(v.height * 1000),
   fps |-> IntOf(v.fps)]

\* variant: the capture is left open
Video_NoSinkNoRelease ==
  /\ pc = "video" /\ video.exists /\ video.decodable /\ ~codecOK
  /\ capture' = "open"
  /\ out' = "closed" /\ outProps' = WriterProps(video)
  /\ log' = Append(log, "could not create output video file")
  /\ pc' = "no sink"
  /\ UNCHANGED << calls, fsVars, loaderVars, knownVars, pos, sinkFrames,
                  frame_count, frameVars, faceVars >>

\* the VideoWriter is not opened: report, release the capture, return
Video_NoSink ==
  /\ pc = "video" /\ video.exists /\ video.decodable /\ ~codecOK
  /\ capture' = "released"
  /\ out' = "closed" /\ outProps' = WriterProps(video)
  /\ log' = Append(log, "could not create output video file")
  /\ pc' = "no sink"
  /\ UNCHANGED << calls, fsVars, loaderVars, knownVars, pos, sinkFrames,
                  frame_count, frameVars, faceVars >>

\* both handles are open: the loop starts with frame_count = 0
Video_Start ==
  /\ pc = "video" /\ video.exists /\ video.decodable /\ codecOK
  /\ capture' = "open"
  /\ out' = "open" /\ outProps' = WriterProps(video)
  /\ log' = Append(log, "processing video")
  /\ frame_count' = 0
  /\ pc' = "read"
  /\ UNCHANGED << calls, fsVars, loaderVars, knownVars, pos, sinkFrames,
                  frameVars, faceVars >>

\* video_capture.read() returns a frame: count it
Video_Read ==
  /\ pc = "read" /\ pos < MaxFrames
  /\ pos' = pos + 1
  /\ frame_count' = frame_count + 1
  /\ nfaces' = 0 /\ faceIdx' = 0 /\ labels' = << >>
  /\ pc' = "detect"
  /\ UNCHANGED << calls, log, fsVars, loaderVars, knownVars, capture, out,
                  outProps, sinkFrames, faceVars >>

\* video_capture.read() returns no frame: leave the loop, report, release
Video_EndOfStream ==
  /\ pc = "read"
  /\ log' = Append(log, "finished processing video")
  /\ capture' = "released" /\ out' = "released"
  /\ pc' = "finished"
  /\ UNCHANGED << calls, fsVars, loaderVars, knownVars, outProps, pos,
                  sinkFrames, frame_count, frameVars, faceVars >>

\* face_locations and face_encodings return the faces of the frame
Video_Detect ==
  /\ pc = "detect"
  /\ \E n \in 0..MaxFaces : nfaces' = n
  /\ faceIdx' = 0
  /\ pc' = "faces"
  /\ UNCHANGED << calls, log, fsVars, loaderVars, knownVars, ioVars,
                  frame_count, labels, faceVars >>

\* variant: the failure is caught and both handles are released
Video_DetectRaiseCaught ==
  /\ pc = "detect"
  /\ capture' = "released" /\ out' = "released"
  /\ pc' = "raised"
  /\ UNCHANGED << calls, log, fsVars, loaderVars, knownVars, outProps, pos,
                  sinkFrames, frame_count, frameVars, faceVars >>

\* face_locations or face_encodings raises: nothing catches it
Video_DetectRaise ==
  /\ pc = "detect"
  /\ pc' = "raised"
  /\ UNCHANGED << calls, log, fsVars, loaderVars, knownVars, ioVars,
                  frame_count, frameVars, faceVars >>

\* variant: the name of any entry that passes the match test
LabelAnyMatch(m, d) ==
  IF \E i \in DOMAIN m : m[i]
  THEN known_face_names[CHOOSE i \in DOMAIN m : m[i]]
  ELSE Unknown

\* the label of one face, given what the engine returns for it
Label(m, d) ==
  IF m[ArgMin(d)] THEN known_face_names[ArgMin(d)] ELSE Unknown

\* variant: the comparison is made without the test for known faces
Video_FaceAlwaysCompare ==
  /\ pc = "faces" /\ faceIdx < nfaces
  /\ \E m \in [1..Len(known_face_encodings) -> BOOLEAN] :
       \E d \in [1..Len(known_face_encodings) -> Dist] :
         /\ matches' = m
         /\ face_distances' = d
         /\ best_match_index' = (IF d = << >> THEN 0 ELSE ArgMin(d))
         /\ name' = (IF d = << >> THEN Unknown ELSE Label(m, d))
  /\ engineCalls' = engineCalls \cup { "compare_faces", "face_distance", "argmin" }
  /\ labels' = Append(labels, name')
  /\ faceIdx' = faceIdx + 1
  /\ UNCHANGED << pc, calls, log, fsVars, loaderVars, knownVars, ioVars,
                  frame_count, nfaces >>

\* one face of the frame: match it, draw the box and the label
Video_Face ==
  /\ pc = "faces" /\ faceIdx < nfaces
  /\ IF known_face_encodings # << >>
     THEN \E m \in [1..Len(known_face_encodings) -> BOOLEAN] :
            \E d \in [1..Len(known_face_encodings) -> Dist] :
              /\ matches' = m
              /\ face_distances' = d
              /\ best_match_index' = ArgMin(d)
              /\ name' = Label(m, d)
              /\ engineCalls' =
                   engineCalls \cup { "compare_faces", "face_distance", "argmin" }
     ELSE /\ name' = Unknown
          /\ UNCHANGED << matches, face_distances, best_match_index, engineCalls >>
  /\ labels' = Append(labels, name')
  /\ faceIdx' = faceIdx + 1
  /\ UNCHANGED << pc, calls, log, fsVars, loaderVars, knownVars, ioVars,
                  frame_count, nfaces >>

\* variant: the frame is written twice
Video_WriteTwice ==
  /\ pc = "faces" /\ faceIdx = nfaces
  /\ sinkFrames' = sinkFrames \o << pos, pos >>
  /\ log' = IF ProgressDue(frame_count) THEN Append(log, "processed frames") ELSE log
  /\ pc' = "read"
  /\ UNCHANGED << calls, fsVars, loaderVars, knownVars, capture, out, outProps,
                  pos, frame_count, frameVars, faceVars >>

\* out.write(frame), then the progress line every 30 frames
Video_Write ==
  /\ pc = "faces" /\ faceIdx = nfaces
  /\ sinkFrames' = Append(sinkFrames, pos)
  /\ log' = IF ProgressDue(frame_count) THEN Append(log, "processed frames") ELSE log
  /\ pc' = "read"
  /\ UNCHANGED << calls, fsVars, loaderVars, knownVars, capture, out, outProps,
                  pos, frame_count, frameVars, faceVars >>

VideoSteps ==
  \/ Video_NoFile
  \/ Video_NotOpened
  \/ Video_NoSink
  \/ Video_Start
  \/ Video_Read
  \/ Video_EndOfStream
  \/ Video_Detect
  \/ Video_DetectRaise
  \/ Video_Face
  \/ Video_Write

(***************************************************************************)
(* Specifications                                                          *)
(***************************************************************************)
Next ==
  \/ Main_CreateDir
  \/ Main_CallLoad
  \/ Main_CallVideo
  \/ Main_NoKnownFaces
  \/ Main_End
  \/ LoadLoop
  \/ VideoSteps

Spec == Init /\ [][Next]_vars

NextLoader == Load_MissingDir \/ LoadLoop

SpecLoader == InitLoader /\ [][NextLoader]_vars

NextVideo == VideoSteps

SpecVideo == InitVideo /\ [][NextVideo]_vars

(***************************************************************************)
(* Properties                                                              *)
(***************************************************************************)
Returned == pc \in { "no file", "not opened", "no sink", "finished" }

\* i is the first index of d that holds the minimum of d
FirstMinimum(i, d) ==
  /\ i \in DOMAIN d
  /\ \A j \in DOMAIN d : d[i] <= d[j]
  /\ \A j \in DOMAIN d : j < i => d[j] > d[i]

SameLetter(a, b) ==
  a = b \/ \E i \in DOMAIN Uppers : { a, b } = { Uppers[i], Lowers[i] }

\* the image suffix a filename ends with, case-insensitively
SuffixOf(fn) ==
  { x \in ImageSuffixes :
      /\ Len(x) <= Len(fn)
      /\ \A i \in 1..Len(x) : SameLetter(fn[Len(fn) - Len(x) + i], x[i]) }

\* the filename without that suffix
Stem(fn) == SubSeq(fn, 1, Len(fn) - Len(CHOOSE x \in SuffixOf(fn) : TRUE))

\* the files of a listing that yield an entry, in listing order
Yielding(dir) ==
  SelectSeq(dir, LAMBDA f : SuffixOf(f.name) # { } /\ f.loads /\ f.faces # << >>)

OnlyDots(s) == \A i \in DOMAIN s : s[i] = "."

C3_VideoOnlyAfterFaces ==
  /\ [](/\ "process_video" \in Range(calls) =>
             /\ calls = << "load_known_faces", "process_video" >>
             /\ "loaded" \in Range(log)
             /\ known_face_encodings # << >>
        /\ (pc = "exit" /\ "process_video" \notin Range(calls)) =>
             /\ capture = "none" /\ out = "none" /\ pos = 0)
  /\ [][(pc = "main" /\ ~dirExists) =>
          /\ pc' = "exit" /\ dirExists' /\ calls' = << >>
          /\ "created directory" \in Range(log')]_vars
  /\ [][(pc = "loaded" /\ known_face_encodings = << >>) =>
          /\ pc' = "exit" /\ calls' = << "load_known_faces" >>
          /\ "no known faces found" \in Range(log')
          /\ capture' = "none"]_vars

\* a directory of skipped files only: the run ends after the loader
C3_Witness ==
  /\ pc = "exit" /\ calls = << "load_known_faces" >>
  /\ Len(directory) = 2
  /\ "no known faces found" \in Range(log)

\* C4: a missing video path, or an input that does not open, is reported and
\* process_video returns with no output sink, no frame read, none written.
C4_NoOutputWithoutInput ==
  (pc # "video" /\ (~video.exists \/ ~video.decodable)) =>
    /\ pc = (IF video.exists THEN "not opened" ELSE "no file")
    /\ log # << >>
    /\ out = "none" /\ outProps = NoProps
    /\ pos = 0 /\ sinkFrames = << >>

C4_Witness == pc = "not opened" /\ video.exists /\ capture = "closed"

C6_Original ==
  out = "open" =>
    /\ outProps.width = video.width
    /\ outProps.height = video.height
    /\ outProps.fps * 1000 = video.fps

\* C7 as stated: a progress line is printed only for a video of more than 30
\* frames.
C7_Original ==
  (pc = "finished" /\ "processed frames" \in Range(log)) => frame_count > ProgressEvery

\* C7, amended: a progress line is printed only once 30 frames are processed.
C7_ProgressFromThirty ==
  "processed frames" \in Range(log) => frame_count >= ProgressEvery

C7_Witness ==
  pc = "finished" /\ frame_count = ProgressEvery /\ "processed frames" \in Range(log)

\* C8: with an empty Reference Set every face is labelled "Unknown" and none
\* of compare_faces, face_distance and argmin is ever called.
C8_EmptySetNoComparison ==
  known_face_encodings = << >> =>
    /\ engineCalls = { }
    /\ matches = << >> /\ face_distances = << >>
    /\ \A i \in DOMAIN labels : labels[i] = Unknown

C8_Witness ==
  /\ known_face_encodings = << >>
  /\ pc = "faces" /\ nfaces = 2 /\ labels = << Unknown, Unknown >>

\* C9 as stated: when the input or the output fails to open the input source
\* has been released at the return.
C9_Original ==
  pc \in { "not opened", "no sink" } => capture = "released"

\* C9, amended: at every return no handle is open; the capture is released
\* when the writer fails to open, and never released when it did not open
\* itself; at the end of the stream both are released and completion reported.
C9_NothingLeftOpen ==
  /\ Returned => (capture # "open" /\ out # "open")
  /\ pc = "no sink" => capture = "released"
  /\ pc = "not opened" => capture = "closed"
  /\ pc = "finished" =>
       /\ capture = "released" /\ out = "released"
       /\ log[Len(log)] = "finished processing video"

C9_Witness == pc = "no sink" /\ capture = "released" /\ out = "closed"

\* C10: a failure of detection on frame k ends the run: frames 1..k-1 are
\* written and nothing more, no completion is reported, and both handles
\* stay open.
C10_FailureHalts ==
  /\ [](pc = "raised" =>
          /\ pos >= 1 /\ frame_count = pos
          /\ sinkFrames = [i \in 1..(pos - 1) |-> i]
          /\ "finished processing video" \notin Range(log)
          /\ capture = "open" /\ out = "open")
  /\ [][pc # "raised"]_vars

C10_Witness == pc = "raised" /\ pos = 3 /\ sinkFrames = << 1, 2 >>
====
